---- MODULE Spec2Model ----
(***************************************************************************)
(* Sea-of-nodes front end (Vetrox/ruson): arena graph, type refiner,       *)
(* peephole/idealizer, scope node, incremental collector and the           *)
(* statement-level behaviour of the recursive-descent parser.              *)
(*                                                                         *)
(* Slot ids are 0-based as in the source; the arena is a TLA+ sequence, so *)
(* slot nid lives at index nid + 1.                                        *)
(***************************************************************************)
EXTENDS Integers, Sequences, FiniteSets, TLC

VARIABLES arena, arena_op, pOn, pOff, last_stmt, call, overflow_checks

vars == <<arena, arena_op, pOn, pOff, last_stmt, call, overflow_checks>>

(***************************************************************************)
(* Bounds of the model.                                                    *)
(***************************************************************************)
\* number of arena calls explored from the empty arena
MaxArenaOps == 5
\* slots an arena call may name as input / user / def (0 .. MaxArenaSlot)
MaxArenaSlot == 2
\* size of a program: its simple statements (declaration, assignment, return,
\* #showGraph) plus the operators of their expressions
MaxSize == 3
\* nesting depth of blocks inside the program text
MaxDepth == 1
\* integer literals 0 .. MaxLit
MaxLit == 1
\* width of the machine integer: i64 is scaled down to WordBits bits, so that
\* its extreme values and their overflow are within reach
WordBits == 6
\* budgets 0 .. MaxCap of a drop_unused_nodes_cap call made after parse()
MaxCap == 2
\* longest chain of nested peephole calls followed before it is cut off
MaxRewrites == 8

(***************************************************************************)
(* Typ lattice (typ/typ.rs).  A Typ is a record [t, c, typs].              *)
(***************************************************************************)
Bot      == [t |-> "Bot",      c |-> 0, typs |-> <<>>]
Top      == [t |-> "Top",      c |-> 0, typs |-> <<>>]
IntTop   == [t |-> "IntTop",   c |-> 0, typs |-> <<>>]
IntBot   == [t |-> "IntBot",   c |-> 0, typs |-> <<>>]
TupleTop == [t |-> "TupleTop", c |-> 0, typs |-> <<>>]
TupleBot == [t |-> "TupleBot", c |-> 0, typs |-> <<>>]
Ctrl     == [t |-> "Ctrl",     c |-> 0, typs |-> <<>>]
IntC(k)   == [t |-> "Int",      c |-> k, typs |-> <<>>]
Tuple(ts) == [t |-> "Tuple",   c |-> 0, typs |-> ts]
\* outcome of a meet the source answers with panic!("not implemented yet")
TypPanic == [t |-> "panic",    c |-> 0, typs |-> <<>>]

is_constant(x) == x.t \in {"Top", "Int"}

\* an operand that is itself a call that panicked never yields a value
meet(self, other) ==
  CASE self.t = "panic" \/ other.t = "panic" -> TypPanic
    [] self.t = "Bot" -> Bot
    [] self.t = "Top" -> other
    [] self.t = "Int" ->
         (CASE other.t = "Int" -> (IF self.c = other.c THEN self ELSE IntBot)
            [] other.t \in {"IntTop", "Top"} -> self
            [] other.t = "IntBot" -> IntBot
            [] OTHER -> Bot)
    [] self.t = "IntTop" ->
         (CASE other.t = "Top" -> self
            [] other.t \in {"Int", "IntTop", "IntBot"} -> other
            [] OTHER -> Bot)
    [] self.t = "IntBot" ->
         (CASE other.t = "Top" -> self
            [] other.t \in {"Int", "IntTop", "IntBot"} -> IntBot
            [] OTHER -> Bot)
    [] self.t \in {"Tuple", "TupleTop", "TupleBot"} ->
         (IF self = other THEN self ELSE TypPanic)
    [] self.t = "Ctrl" ->
         (CASE other.t = "Top" -> Ctrl
            [] OTHER -> Bot)
    [] OTHER -> TypPanic

\* dual with the IntTop arm sending IntTop to IntBot and the IntBot arm lost
dual_keeping_IntBot(self) ==
  CASE self.t = "Bot" -> Top
    [] self.t = "Top" -> Bot
    [] self.t = "IntTop" -> IntBot
    [] self.t = "TupleTop" -> TupleBot
    [] self.t = "TupleBot" -> TupleTop
    [] OTHER -> self

dual(self) ==
  CASE self.t = "panic" -> TypPanic
    [] self.t = "Bot" -> Top
    [] self.t = "Top" -> Bot
    [] self.t = "IntTop" -> IntBot
    [] self.t = "IntBot" -> IntTop
    [] self.t = "TupleTop" -> TupleBot
    [] self.t = "TupleBot" -> TupleTop
    [] OTHER -> self

\* self.dual().meet(&other.dual()).dual()
join(self, other) == dual(meet(dual(self), dual(other)))

\* "yes" | "no" | "panic" (the meet aborted)
transition_allowed(self, other) ==
  LET m == meet(self, other)
  IN IF m.t = "panic" THEN "panic" ELSE IF m = self THEN "yes" ELSE "no"

(***************************************************************************)
(* i64 arithmetic of the refiner.                                          *)
(***************************************************************************)
I64_MIN == 0 - 2 ^ (WordBits - 1)
I64 == I64_MIN..(2 ^ (WordBits - 1) - 1)
\* two's-complement reduction into the signed range
Wrap(x) == ((x - I64_MIN) % 2 ^ WordBits) + I64_MIN

Abs(x) == IF x < 0 THEN -x ELSE x
\* Rust integer division truncates toward zero; the divisor is non-zero here
IntDiv(a, b) ==
  IF (a < 0) = (b < 0) THEN Abs(a) \div Abs(b) ELSE 0 - (Abs(a) \div Abs(b))

(***************************************************************************)
(* Nodes and the arena (nodes/graph.rs).                                   *)
(***************************************************************************)
None == [kind |-> "None", pidx |-> 0, inputs |-> <<>>, outputs |-> <<>>,
         uid |-> 0, typ |-> Bot]

\* Node::new as it would be if it ignored the unique id handed to it
Node_unnumbered(kind, pidx, uid, typ) ==
  [kind |-> kind, pidx |-> pidx, inputs |-> <<>>, outputs |-> <<>>,
   uid |-> 0, typ |-> typ]

Node(kind, pidx, uid, typ) ==
  [kind |-> kind, pidx |-> pidx, inputs |-> <<>>, outputs |-> <<>>,
   uid |-> uid, typ |-> typ]

node_exists(g, nid) == nid >= 0 /\ nid < Len(g) /\ g[nid + 1].kind # "None"

node_exists_unique(g, nid, uid) == node_exists(g, nid) /\ g[nid + 1].uid = uid

RECURSIVE FirstEmptyFrom(_, _)
\* first slot >= nid that holds no node, Len(g) when every slot is filled
FirstEmptyFrom(g, nid) ==
  IF nid >= Len(g) \/ g[nid + 1].kind = "None" THEN nid
  ELSE FirstEmptyFrom(g, nid + 1)

find_first_empty_cell(g) == FirstEmptyFrom(g, 0)

\* number of occurrences of x in the sequence s
Count(s, x) == Cardinality({i \in 1..Len(s) : s[i] = x})

\* s with its last occurrence of x removed (s itself when x does not occur)
\* the removal as it would be if it took the first occurrence
RemoveFirst(s, x) ==
  IF \E i \in 1..Len(s) : s[i] = x
  THEN LET pos == CHOOSE i \in 1..Len(s) :
                    s[i] = x /\ \A j \in 1..(i - 1) : s[j] # x
       IN SubSeq(s, 1, pos - 1) \o SubSeq(s, pos + 1, Len(s))
  ELSE s

RemoveLast(s, x) ==
  IF \E i \in 1..Len(s) : s[i] = x
  THEN LET pos == CHOOSE i \in 1..Len(s) :
                    s[i] = x /\ \A j \in (i + 1)..Len(s) : s[j] # x
       IN SubSeq(s, 1, pos - 1) \o SubSeq(s, pos + 1, Len(s))
  ELSE s

\* the ? operator: an Err result r is returned as it is, an Ok result is
\* handed on to the rest of the function
Try(r, F(_)) == IF r.err # "" THEN r ELSE F(r)

RECURSIVE add_reverse_dependencies_br(_, _, _)
\* Pushes nid onto the outputs of every dep in order and stops with
\* NodeIdNotExisting at the first dep that is missing: the pushes made for
\* the deps before it stay.
add_reverse_dependencies_br(G, nid, deps) ==
  IF deps = <<>> THEN G
  ELSE IF ~node_exists(G.graph, Head(deps))
       THEN [G EXCEPT !.err = "NodeIdNotExisting"]
  ELSE add_reverse_dependencies_br(
         [G EXCEPT !.graph[Head(deps) + 1].outputs = Append(@, nid)],
         nid, Tail(deps))

add_dependencies_br(G, nid, deps) ==
  IF node_exists(G.graph, nid)
  THEN [G EXCEPT !.graph[nid + 1].inputs = @ \o deps]
  ELSE [G EXCEPT !.err = "NodeIdNotExisting"]

remove_dependency_br(G, nid, dep_nid) ==
  IF ~node_exists(G.graph, nid) \/ ~node_exists(G.graph, nid)
  THEN [G EXCEPT !.err = "NodeIdNotExisting"]
  ELSE LET G1 == [G EXCEPT !.graph[nid + 1].inputs = RemoveLast(@, dep_nid)]
       IN IF ~node_exists(G1.graph, dep_nid)
          THEN [G1 EXCEPT !.err = "NodeIdNotExisting"]
          ELSE [G1 EXCEPT !.graph[dep_nid + 1].outputs = RemoveLast(@, nid)]

(***************************************************************************)
(* Type refiner (services/typ_refiner.rs).  Result: [err, typ].            *)
(***************************************************************************)
TypOk(ty) == [err |-> "", typ |-> ty]
TypErr(e) == [err |-> e, typ |-> Bot]

\* Int { constant: x } for the exact result x of +, - or * on i64.  Outside
\* the range the operator panics when the build has overflow checks (the
\* default of a debug build) and wraps when it has none (release).
Arith(x) ==
  IF x \in I64 THEN TypOk(IntC(x))
  ELSE IF overflow_checks THEN TypErr("panic")
  ELSE TypOk(IntC(Wrap(x)))

\* clhs / crhs: i64 division panics on a zero divisor and on MIN / -1 in
\* every build
DivArith(a, b) ==
  IF b = 0 THEN TypErr("panic")
  ELSE IF IntDiv(a, b) \notin I64 THEN TypErr("panic")
  ELSE TypOk(IntC(IntDiv(a, b)))

compute_refined_typ(g, node) ==
  LET arity == IF node.kind \in {"Add", "Sub", "Mul", "Div"} THEN 2
               ELSE IF node.kind \in {"Minus", "Proj"} THEN 1 ELSE 0
  IN IF arity = 0 THEN TypOk(node.typ)
     ELSE IF Len(node.inputs) < arity THEN TypErr("panic")
     ELSE IF \E i \in 1..arity : ~node_exists(g, node.inputs[i])
          THEN TypErr("NodeIdNotExisting")
     ELSE LET lhs == g[node.inputs[1] + 1].typ
          IN CASE node.kind = "Minus" ->
                    (IF lhs.t = "Int" THEN Arith(0 - lhs.c)
                     ELSE TypOk(node.typ))
               [] node.kind = "Proj" ->
                    (IF lhs.t = "Tuple"
                     THEN (IF node.pidx < Len(lhs.typs)
                           THEN TypOk(lhs.typs[node.pidx + 1])
                           ELSE TypErr("panic"))
                     ELSE TypOk(node.typ))
               [] OTHER ->
                    LET rhs == g[node.inputs[2] + 1].typ
                    IN IF lhs.t = "Int" /\ rhs.t = "Int"
                       THEN CASE node.kind = "Add" -> Arith(lhs.c + rhs.c)
                              [] node.kind = "Sub" -> Arith(lhs.c - rhs.c)
                              [] node.kind = "Mul" -> Arith(lhs.c * rhs.c)
                              [] OTHER -> DivArith(lhs.c, rhs.c)
                       ELSE TypOk(node.typ)

\* Node::refine_typ applied to slot nid of G
refine_typ(G, nid, typ) ==
  LET ta == transition_allowed(G.graph[nid + 1].typ, typ)
  IN CASE ta = "panic" -> [G EXCEPT !.err = "panic"]
       [] ta = "no"    -> [G EXCEPT !.err = "TypTransitionNotAllowed"]
       [] OTHER        -> [G EXCEPT !.graph[nid + 1].typ = typ]

\* Graph::new_node; on success G.ret is the slot of the new node
new_node(G, inputs, kind, pidx, typ) ==
  LET index == find_first_empty_cell(G.graph)
      node == Node(kind, pidx, G.counter, typ)
  IN Try(add_reverse_dependencies_br([G EXCEPT !.counter = @ + 1],
                                     index, inputs), LAMBDA G2 :
     Try(add_dependencies_br(
           [G2 EXCEPT !.graph =
              [(IF index = Len(@) THEN Append(@, None) ELSE @)
                 EXCEPT ![index + 1] = node]],
           index, inputs), LAMBDA G4 :
       LET rt == compute_refined_typ(G4.graph, G4.graph[index + 1])
       IN IF rt.err # "" THEN [G4 EXCEPT !.err = rt.err]
          ELSE Try(refine_typ(G4, index, rt.typ), LAMBDA G5 :
                   [G5 EXCEPT !.ret = index])))

(***************************************************************************)
(* Parser state (services/parser.rs).  A parser record p carries           *)
(*   graph, counter   the arena and its unique-id counter                  *)
(*   scopes           payload of the Scope node: stack of name -> slot     *)
(*   do_optimize      the peephole switch                                  *)
(*   err, ret         outcome of the call in progress ("" = Ok)            *)
(*   frames           call stack of parse_block: [node, first]             *)
(*   src_depth        blocks opened and not yet closed in the consumed text*)
(*   phase            "new" | "parsing" | "done"                           *)
(*   stale            some input handed to add_node no longer held the     *)
(*                    node (unique id) its caller obtained it for          *)
(*   retuid           unique id of the node in slot ret when ret was made  *)
(*   extra            unique id of the node a caller added before parse()  *)
(*                    without pinning it (-1: none)                        *)
(*   depth            peephole calls on the call stack                     *)
(*   panic_at         the assertion that aborted the process ("" = none)   *)
(***************************************************************************)
KEEP_ALIVE_NID == 0
SCOPE_NID == 1
START_NID == 2
\* budget of one sweep: drop_unused_nodes calls drop_unused_nodes_cap(100)
SweepCap == 100

Names == {"$ctrl", "arg", "a", "b"}
NoBinding == -1
EmptyScope == [n \in Names |-> NoBinding]

Fail(p, e) == [p EXCEPT !.err = e]
Ok(p, nid) == [p EXCEPT !.ret = nid]
UidAt(g, nid) == IF node_exists(g, nid) THEN g[nid + 1].uid ELSE -1
\* Ok(nid) together with the identity of the node handed back
OkNode(p, nid) == [p EXCEPT !.ret = nid, !.retuid = UidAt(p.graph, nid)]

(***************************************************************************)
(* Incremental collector.                                                  *)
(***************************************************************************)
RECURSIVE attempt_drop_node(_, _)
RECURSIVE DropInputs(_, _, _, _)
RECURSIVE DetachInputs(_, _, _, _)

\* A collector state st is [graph, c]: the arena and the budget left.  The
\* source returns the number of deleted nodes and its callers subtract it
\* from their budget (cap -= attempt_drop_node(nid, cap)); here the budget
\* left travels with the graph.

\* n.outputs.retain(|&k| k != nid) on slot neigh, when it holds a node
RetainOthers(st, neigh, nid) ==
  IF node_exists(st.graph, neigh)
  THEN [st EXCEPT !.graph[neigh + 1].outputs = SelectSeq(@, LAMBDA k : k # nid)]
  ELSE st

\* the loop over the inputs as it would be without the recursive call
DetachInputs(st, nid, inputs, i) ==
  IF i > Len(inputs) THEN st
  ELSE DetachInputs(RetainOthers(st, inputs[i], nid), nid, inputs, i + 1)

\* the loop over the inputs of nid inside attempt_drop_node, from input i on
DropInputs(st, nid, inputs, i) ==
  IF i > Len(inputs) THEN st
  ELSE DropInputs(attempt_drop_node(RetainOthers(st, inputs[i], nid), inputs[i]),
                  nid, inputs, i + 1)

\* the closing step of attempt_drop_node: slot nid is emptied when budget is
\* left and the node in it has no outputs
\* the closing step as it would be without c -= 1
DropSelf_uncharged(st, nid) ==
  IF st.c > 0 /\ node_exists(st.graph, nid)
     /\ st.graph[nid + 1].outputs = <<>>
  THEN [st EXCEPT !.graph[nid + 1] = None,
                  !.log = Append(@, [nid |-> nid, outputs |-> <<>>])]
  ELSE st

DropSelf(st, nid) ==
  IF st.c > 0 /\ node_exists(st.graph, nid)
     /\ st.graph[nid + 1].outputs = <<>>
  THEN [st EXCEPT !.graph[nid + 1] = None, !.c = @ - 1,
                  !.log = Append(@, [nid |-> nid,
                                     outputs |-> st.graph[nid + 1].outputs])]
  ELSE st

\* attempt_drop_node as it would be without its nid == KEEP_ALIVE_NID test
attempt_drop_node_of_any_slot(st, nid) ==
  IF st.c <= 0 THEN st
  ELSE DropSelf(
         IF nid < Len(st.graph)
         THEN DropInputs(st, nid,
                         IF node_exists(st.graph, nid)
                            /\ st.graph[nid + 1].outputs = <<>>
                         THEN st.graph[nid + 1].inputs ELSE <<>>,
                         1)
         ELSE st,
         nid)

attempt_drop_node(st, nid) ==
  IF nid = KEEP_ALIVE_NID \/ st.c <= 0 THEN st
  ELSE DropSelf(
         IF nid < Len(st.graph)
         THEN DropInputs(st, nid,
                         IF node_exists(st.graph, nid)
                            /\ st.graph[nid + 1].outputs = <<>>
                         THEN st.graph[nid + 1].inputs ELSE <<>>,
                         1)
         ELSE st,
         nid)

RECURSIVE SweepFrom(_, _, _)
\* the for loop of drop_unused_nodes_cap from slot nid on
SweepFrom(st, nid, len) ==
  IF nid >= len THEN st
  ELSE SweepFrom(attempt_drop_node(st, nid), nid + 1, len)

\* original_cap - cap, next to the graph the sweep left
Deleted(st, original_cap) ==
  [graph |-> st.graph, n |-> original_cap - st.c, cleared |-> st.log]

\* result [graph, n, cleared]: n is the returned number of deleted nodes
drop_unused_nodes_cap(g, cap) ==
  Deleted(SweepFrom([graph |-> g, c |-> cap, log |-> <<>>], 0, Len(g)), cap)

drop_unused_nodes(p) ==
  [p EXCEPT !.graph = drop_unused_nodes_cap(p.graph, SweepCap).graph]

keep_node(p, nid) ==
  Try(add_reverse_dependencies_br(p, KEEP_ALIVE_NID, <<nid>>), LAMBDA p1 :
      add_dependencies_br(p1, KEEP_ALIVE_NID, <<nid>>))

unkeep_node(p, nid) == remove_dependency_br(p, KEEP_ALIVE_NID, nid)

RECURSIVE KeepAll(_, _, _)
\* for input in inputs { keep_node(input)? } from position i on
KeepAll(p, inputs, i) ==
  IF i > Len(inputs) \/ p.err # "" THEN p
  ELSE KeepAll(keep_node(p, inputs[i]), inputs, i + 1)

RECURSIVE UnkeepAll(_, _, _)
\* for input in inputs { unkeep_node(input)? } from position i on
UnkeepAll(p, inputs, i) ==
  IF i > Len(inputs) \/ p.err # "" THEN p
  ELSE UnkeepAll(unkeep_node(p, inputs[i]), inputs, i + 1)

(***************************************************************************)
(* add_node, peephole (services/parser.rs) and idealize_node               *)
(* (services/node_idealizer.rs).  uids[i] is the unique id the caller saw  *)
(* in slot inputs[i] when it obtained that slot id; it only feeds stale.   *)
(***************************************************************************)
RECURSIVE add_node(_, _, _, _, _, _)
RECURSIVE peephole(_, _)
RECURSIVE idealize_node(_, _)

\* the swap of a node's two inputs as it would be if it left their order
SwapInputs_leaving_order(p, nid, lhs_nid, rhs_nid) == p

SwapInputs(p, nid, lhs_nid, rhs_nid) ==
  [p EXCEPT !.graph[nid + 1].inputs = [@ EXCEPT ![1] = rhs_nid, ![2] = lhs_nid]]

add_node_unrefined(p, inputs, uids, kind, pidx) ==
  add_node(p, inputs, uids, kind, pidx, Bot)

\* bookkeeping of the model, not of the program: records that a slot handed
\* to add_node no longer holds the node its caller obtained it for
NoteStale(p, inputs, uids) ==
  [p EXCEPT !.stale = @ \/ \E i \in 1..Len(inputs) :
                         ~node_exists_unique(p.graph, inputs[i], uids[i])]

\* the steps of add_node after new_node, taken when do_optimize is set
OptimizeNew(p, nid0) ==
  Try(peephole(p, nid0), LAMBDA p1 :
  Try(keep_node(p1, p1.ret), LAMBDA p2 :
  Try(unkeep_node(drop_unused_nodes(p2), p1.ret), LAMBDA p3 :
      OkNode(p3, p1.ret))))

\* add_node as it would be if it ignored the do_optimize switch
add_node_always_optimizing(p, inputs, uids, kind, pidx, typ) ==
  Try(KeepAll(NoteStale(p, inputs, uids), inputs, 1), LAMBDA p1 :
  Try(UnkeepAll(drop_unused_nodes(p1), inputs, 1), LAMBDA p2 :
  Try(new_node(p2, inputs, kind, pidx, typ), LAMBDA p3 :
      OptimizeNew(p3, p3.ret))))

add_node(p, inputs, uids, kind, pidx, typ) ==
  Try(KeepAll(NoteStale(p, inputs, uids), inputs, 1), LAMBDA p1 :
  Try(UnkeepAll(drop_unused_nodes(p1), inputs, 1), LAMBDA p2 :
  Try(new_node(p2, inputs, kind, pidx, typ), LAMBDA p3 :
      IF p3.do_optimize THEN OptimizeNew(p3, p3.ret)
      ELSE OkNode(p3, p3.ret))))

\* peephole as it would be without constant materialization
peephole_without_constprop(p, nid) == idealize_node(p, nid)

\* peephole as it would be if it pinned the node it replaces
peephole_pinning_original(p, nid) ==
  IF ~node_exists(p.graph, nid) THEN Fail(p, "NodeIdNotExisting")
  ELSE IF is_constant(p.graph[nid + 1].typ) /\ p.graph[nid + 1].kind # "Constant"
  THEN Try(keep_node(p, nid), LAMBDA p0 :
       Try(add_node(p0, <<>>, <<>>, "Constant", 0, p0.graph[nid + 1].typ),
           LAMBDA p1 : idealize_node(p1, p1.ret)))
  ELSE idealize_node(p, nid)

\* p.depth counts the peephole calls on the call stack (a re-peephole and a
\* replacement's add_node are calls made from inside peephole); a chain of
\* more than MaxRewrites nested calls is cut off with "diverged".
\* p.panic_at names the assertion that aborted the process.
peephole(p, nid) ==
  IF p.depth >= MaxRewrites THEN Fail(p, "diverged")
  ELSE IF ~node_exists(p.graph, nid) THEN Fail(p, "NodeIdNotExisting")
  ELSE LET node == p.graph[nid + 1]
           q == [p EXCEPT !.depth = @ + 1]
       IN [(IF is_constant(node.typ) /\ node.kind # "Constant"
            THEN IF node.outputs # <<>>
                 THEN [Fail(q, "panic") EXCEPT !.panic_at = "peephole"]
                 ELSE Try(add_node(q, <<>>, <<>>, "Constant", 0, node.typ),
                          LAMBDA p1 : idealize_node(p1, p1.ret))
            ELSE idealize_node(q, nid))
          EXCEPT !.depth = @ - 1]

\* inner = add_node([a, b], kind)?; outer = add_node([inner, c], kind)?
\* (innerFirst) or outer = add_node([c, inner], kind)? (otherwise)
Regroup(p, kind, a, auid, b, buid, c, cuid, innerFirst) ==
  Try(add_node_unrefined(p, <<a, b>>, <<auid, buid>>, kind, 0), LAMBDA p1 :
      add_node_unrefined(p1,
        IF innerFirst THEN <<p1.ret, c>> ELSE <<c, p1.ret>>,
        IF innerFirst THEN <<p1.retuid, cuid>> ELSE <<cuid, p1.retuid>>,
        kind, 0))

\* the Add rules as they would be if they left every Add as it was built
idealize_Add_as_built(p, nid, node) == Ok(p, nid)

idealize_Add(p, nid, node) ==
  LET lhs_nid == node.inputs[1]
      rhs_nid == node.inputs[2]
  IN IF ~node_exists(p.graph, lhs_nid) \/ ~node_exists(p.graph, rhs_nid)
     THEN Fail(p, "NodeIdNotExisting")
     ELSE
       LET lhs == p.graph[lhs_nid + 1]
           rhs == p.graph[rhs_nid + 1]
           is_lhs_add == lhs.kind = "Add"
           is_rhs_add == rhs.kind = "Add"
       IN CASE is_constant(lhs.typ) /\ is_constant(rhs.typ) -> Fail(p, "panic")
            [] rhs.typ = IntC(0) -> Ok(p, lhs_nid)                \* T_ARITH_IDENT
            [] lhs_nid = rhs_nid ->                               \* T_ADD_SAME
                 Try(add_node(p, <<>>, <<>>, "Constant", 0, IntC(2)),
                     LAMBDA p1 :
                       add_node_unrefined(p1, <<lhs_nid, p1.ret>>,
                                          <<lhs.uid, p1.retuid>>, "Mul", 0))
            [] ~is_lhs_add /\ is_rhs_add ->                       \* T_LEFT_SPINE
                 peephole(SwapInputs(p, nid, lhs_nid, rhs_nid), nid)
            [] is_rhs_add ->                                      \* T_ASSOCIATIVITY
                 Regroup(p, "Add", lhs_nid, lhs.uid,
                         rhs.inputs[1], UidAt(p.graph, rhs.inputs[1]),
                         rhs.inputs[2], UidAt(p.graph, rhs.inputs[2]), TRUE)
            [] ~is_lhs_add /\ ~is_rhs_add ->                      \* T_CANONIC_INC_NID
                 (IF lhs.uid > rhs.uid
                  THEN peephole(SwapInputs(p, nid, lhs_nid, rhs_nid), nid)
                  ELSE Ok(p, nid))
            [] OTHER ->                                           \* is_lhs_add
                 LET lhs_lhs_nid == lhs.inputs[1]
                     lhs_rhs_nid == lhs.inputs[2]
                 IN IF ~node_exists(p.graph, lhs_rhs_nid)
                    THEN Fail(p, "NodeIdNotExisting")
                    ELSE
                      LET lhs_rhs == p.graph[lhs_rhs_nid + 1]
                      IN CASE is_constant(lhs_rhs.typ) /\ is_constant(rhs.typ) ->
                                Regroup(p, "Add", lhs_rhs_nid, lhs_rhs.uid,
                                        rhs_nid, rhs.uid, lhs_lhs_nid,
                                        UidAt(p.graph, lhs_lhs_nid), FALSE) \* T_RIGHT_CONST
                           [] lhs_rhs.uid > rhs.uid ->
                                Regroup(p, "Add", lhs_lhs_nid,
                                        UidAt(p.graph, lhs_lhs_nid),
                                        rhs_nid, rhs.uid, lhs_rhs_nid,
                                        lhs_rhs.uid, TRUE)        \* T_CANONIC_INC_NID
                           [] OTHER -> Ok(p, nid)

\* the Mul rules as they would be if every call swapped the two inputs
idealize_Mul_swapping(p, nid, node) ==
  Ok(SwapInputs(p, nid, node.inputs[1], node.inputs[2]), nid)

idealize_Mul(p, nid, node) ==
  LET lhs_nid == node.inputs[1]
      rhs_nid == node.inputs[2]
  IN IF ~node_exists(p.graph, lhs_nid) \/ ~node_exists(p.graph, rhs_nid)
     THEN Fail(p, "NodeIdNotExisting")
     ELSE
       LET lhs == p.graph[lhs_nid + 1]
           rhs == p.graph[rhs_nid + 1]
       IN CASE rhs.typ = IntC(1) -> Ok(p, lhs_nid)                \* T_ARITH_IDENT
            [] is_constant(lhs.typ) /\ ~is_constant(rhs.typ) ->   \* T_RIGHT_CONST
                 peephole(SwapInputs(p, nid, lhs_nid, rhs_nid), nid)
            [] OTHER -> Ok(p, nid)

idealize_Div(p, nid, node) ==
  LET lhs_nid == node.inputs[1]
      rhs_nid == node.inputs[2]
  IN IF ~node_exists(p.graph, rhs_nid) THEN Fail(p, "NodeIdNotExisting")
     ELSE IF p.graph[rhs_nid + 1].typ = IntC(1) THEN Ok(p, lhs_nid) \* T_ARITH_IDENT
     ELSE Ok(p, nid)

idealize_node(p, nid) ==
  IF ~node_exists(p.graph, nid) THEN Fail(p, "NodeIdNotExisting")
  ELSE LET node == p.graph[nid + 1]
       IN IF node.kind \in {"Add", "Mul", "Div"} /\ Len(node.inputs) < 2
          THEN Fail(p, "panic")
          ELSE CASE node.kind = "Add" -> idealize_Add(p, nid, node)
                 [] node.kind = "Mul" -> idealize_Mul(p, nid, node)
                 [] node.kind = "Div" -> idealize_Div(p, nid, node)
                 [] OTHER -> Ok(p, nid)

(***************************************************************************)
(* Scope payload (services/parser.rs).                                     *)
(***************************************************************************)
\* slot bound to name, searching the maps from the topmost down; NoBinding
\* when no level binds it
get_var(p, name) ==
  LET hits == {i \in 1..Len(p.scopes) : p.scopes[i][name] # NoBinding}
  IN IF hits = {} THEN NoBinding
     ELSE p.scopes[CHOOSE i \in hits : \A j \in hits : j <= i][name]

\* define_var as it would be if it only wrote the map
define_var_in_map_only(p, name, nid) ==
  IF p.scopes = <<>> THEN Fail(p, "panic")
  ELSE IF p.scopes[Len(p.scopes)][name] # NoBinding THEN Fail(p, "panic")
  ELSE [p EXCEPT !.scopes[Len(p.scopes)][name] = nid]

define_var(p, name, nid) ==
  Try(add_reverse_dependencies_br(p, SCOPE_NID, <<nid>>), LAMBDA p1 :
  Try(add_dependencies_br(p1, SCOPE_NID, <<nid>>), LAMBDA p2 :
      IF p2.scopes = <<>> THEN Fail(p2, "panic")
      ELSE IF p2.scopes[Len(p2.scopes)][name] # NoBinding
           THEN Fail(p2, "panic")
      ELSE [p2 EXCEPT !.scopes[Len(p2.scopes)][name] = nid]))

undefine_var(p, name) ==
  IF ~node_exists(p.graph, SCOPE_NID) THEN Fail(p, "NodeIdNotExisting")
  ELSE IF p.scopes = <<>> THEN Fail(p, "panic")
  ELSE LET nid == p.scopes[Len(p.scopes)][name]
       IN IF nid = NoBinding THEN Fail(p, "panic")
          ELSE Try(remove_dependency_br(
                     [p EXCEPT !.scopes[Len(p.scopes)][name] = NoBinding],
                     SCOPE_NID, nid),
                   LAMBDA p2 : Ok(p2, nid))

push_scope(p) ==
  IF ~node_exists(p.graph, SCOPE_NID) THEN Fail(p, "NodeIdNotExisting")
  ELSE [p EXCEPT !.scopes = Append(@, EmptyScope)]

RECURSIVE RemoveBindings(_, _, _)
\* for &dep_nid in scope.values() { remove_dependency_br(SCOPE_NID, dep_nid)? }
\* The order HashMap::values yields is unspecified; removing the last
\* occurrence of each bound slot gives the same lists in every order.
RemoveBindings(p, scope, names) ==
  IF names = {} \/ p.err # "" THEN p
  ELSE LET n == CHOOSE x \in names : TRUE
       IN RemoveBindings(
            IF scope[n] = NoBinding THEN p
            ELSE remove_dependency_br(p, SCOPE_NID, scope[n]),
            scope, names \ {n})

\* pop_scope as it would be if it only dropped the map
pop_scope_of_map_only(p) ==
  IF ~node_exists(p.graph, SCOPE_NID) THEN Fail(p, "NodeIdNotExisting")
  ELSE IF p.scopes = <<>> THEN Fail(p, "panic")
  ELSE [p EXCEPT !.scopes = SubSeq(@, 1, Len(@) - 1)]

pop_scope(p) ==
  IF ~node_exists(p.graph, SCOPE_NID) THEN Fail(p, "NodeIdNotExisting")
  ELSE IF p.scopes = <<>> THEN Fail(p, "panic")
  ELSE RemoveBindings([p EXCEPT !.scopes = SubSeq(@, 1, Len(@) - 1)],
                      p.scopes[Len(p.scopes)], Names)

ctrl(p) == get_var(p, "$ctrl")

(***************************************************************************)
(* Expressions.  The source text is consumed through the lexer, which is   *)
(* not modelled; an expression is given by its parse tree                  *)
(* [op, v, name, kids], which fixes the calls parse_addition,              *)
(* parse_multiplication, parse_unary and parse_primary make.               *)
(***************************************************************************)
Num(v)        == [op |-> "num", v |-> v, name |-> "", kids |-> <<>>]
Var(n)        == [op |-> "var", v |-> 0, name |-> n, kids |-> <<>>]
Neg(e)        == [op |-> "Minus", v |-> 0, name |-> "", kids |-> <<e>>]
Bin(op, l, r) == [op |-> op, v |-> 0, name |-> "", kids |-> <<l, r>>]

BinOps == {"Add", "Sub", "Mul", "Div"}

\* with_kept_node(node, f): the pin is released whether f failed or not,
\* and a failing release takes precedence; a panic inside f ends the process
\* the exit of with_kept_node as it would be if f's result were passed on
\* with ? before the release
with_kept_node_exit_on_ok(pf, node) ==
  IF pf.err # "" THEN pf ELSE unkeep_node(pf, node)

with_kept_node_exit(pf, node) ==
  IF pf.err = "panic" THEN pf
  ELSE Try(unkeep_node([pf EXCEPT !.err = ""], node), LAMBDA pu :
           [pu EXCEPT !.err = pf.err])

RECURSIVE parse_expression(_, _)
parse_expression(p, e) ==
  CASE e.op = "num" ->                                   \* parse_number_literal
         add_node(p, <<>>, <<>>, "Constant", 0, IntC(e.v))
    [] e.op = "var" ->                                   \* parse_primary
         (IF p.scopes = <<>> THEN Fail(p, "panic")
          ELSE IF get_var(p, e.name) = NoBinding THEN Fail(p, "VariableUndefined")
          ELSE OkNode(p, get_var(p, e.name)))
    [] e.op = "Minus" ->                                 \* parse_unary
         Try(parse_expression(p, e.kids[1]), LAMBDA p1 :
             add_node_unrefined(p1, <<p1.ret>>, <<p1.retuid>>, "Minus", 0))
    [] OTHER ->                        \* parse_addition / parse_multiplication
         \* lhs = p1.ret; with_kept_node(lhs, |p| { rhs = ...?; add_node })
         Try(parse_expression(p, e.kids[1]), LAMBDA p1 :
         Try(keep_node(p1, p1.ret), LAMBDA p2 :
             with_kept_node_exit(
               Try(parse_expression(p2, e.kids[2]), LAMBDA p3 :
                   add_node_unrefined(p3, <<p1.ret, p3.ret>>,
                                      <<p1.retuid, p3.retuid>>, e.op, 0)),
               p1.ret)))

(***************************************************************************)
(* Statements (services/parser.rs).                                        *)
(***************************************************************************)
parse_decl_stmnt(p, name, e) ==
  Try(parse_expression(p, e), LAMBDA p1 :
      IF p1.scopes = <<>> THEN Fail(p1, "panic")
      ELSE IF get_var(p1, name) # NoBinding
           THEN Fail(p1, "VariableRedefinition")
      ELSE Try(define_var(p1, name, p1.ret), LAMBDA p2 : Ok(p2, p1.ret)))

parse_expression_stmnt(p, name, e) ==
  Try(parse_expression(p, e), LAMBDA p1 :
      IF p1.scopes = <<>> THEN Fail(p1, "panic")
      ELSE IF get_var(p1, name) = NoBinding
           THEN Fail(p1, "VariableUndefined")
      ELSE Try(undefine_var(p1, name), LAMBDA p2 :
               IF p2.ret # get_var(p1, name) THEN Fail(p2, "panic")
               ELSE Try(define_var(p2, name, p1.ret), LAMBDA p3 :
                        Ok(p3, p1.ret))))

parse_return_stmnt(p, e) ==
  Try(parse_expression(p, e), LAMBDA p1 :
      IF p1.scopes = <<>> \/ ctrl(p1) = NoBinding THEN Fail(p1, "panic")
      ELSE add_node_unrefined(p1, <<ctrl(p1), p1.ret>>,
                              <<UidAt(p1.graph, ctrl(p1)), p1.retuid>>,
                              "Return", 0))

\* parse_statement on the directive #showGraph;
parse_show_graph(p) == Fail(p, "DebugPropagateControlFlowUpward")

\* A statement of the program text: [t, name, e]
DeclStmt(n, e)   == [t |-> "decl",   name |-> n,  e |-> e]
AssignStmt(n, e) == [t |-> "assign", name |-> n,  e |-> e]
ReturnStmt(e)    == [t |-> "return", name |-> "", e |-> e]
ShowStmt         == [t |-> "show",   name |-> "", e |-> Num(0)]
NoStmt(t)        == [t |-> t,        name |-> "", e |-> Num(0)]

parse_statement(p, s) ==
  CASE s.t = "show"   -> parse_show_graph(p)
    [] s.t = "return" -> parse_return_stmnt(p, s.e)
    [] s.t = "decl"   -> parse_decl_stmnt(p, s.name, s.e)
    [] OTHER          -> parse_expression_stmnt(p, s.name, s.e)

\* parse() has returned Err(p.err), or the process has aborted ("panic")
Abort(p) == [p EXCEPT !.phase = "done", !.frames = <<>>]
\* an Err that reaches parse() ends it
AbortOnErr(r) == IF r.err # "" THEN Abort(r) ELSE r

RECURSIVE Unwind(_)
\* frames left once an Err has travelled through every parse_block that was
\* still waiting for its first statement (let mut node = parse_statement()?)
Unwind(frames) ==
  IF frames # <<>> /\ frames[Len(frames)].first
  THEN Unwind(SubSeq(frames, 1, Len(frames) - 1))
  ELSE frames

\* What parse_block (and parse above it) does with the outcome of a
\* parse_statement call
BlockTakes(p) ==
  CASE p.err = "" ->
         [p EXCEPT !.frames[Len(p.frames)] = [node |-> p.ret, first |-> FALSE]]
    [] p.err = "DebugPropagateControlFlowUpward" ->
         (IF Unwind(p.frames) = <<>> THEN Abort(p)
          ELSE [p EXCEPT !.frames = Unwind(p.frames), !.err = ""])
    [] OTHER -> Abort(p)

\* parse_block up to its first statement
enter_block(p) ==
  AbortOnErr(
    Try(push_scope(p), LAMBDA p1 :
        [p1 EXCEPT !.frames = Append(@, [node |-> -1, first |-> TRUE]),
                   !.src_depth = @ + 1]))

RECURSIVE DropLoop(_, _)
\* while self.drop_unused_nodes() > 0 {}, r being the outcome of the sweep
\* made last; p.sweeps collects the numbers the sweeps returned
DropLoop(p, r) ==
  IF r.n > 0
  THEN DropLoop([p EXCEPT !.sweeps = Append(@, r.n)],
                drop_unused_nodes_cap(r.graph, SweepCap))
  ELSE [p EXCEPT !.graph = r.graph, !.sweeps = Append(@, r.n)]

\* parse() as it would be without its closing sweep
finish_parse_without_sweep(p, nid) ==
  AbortOnErr(
    Try(pop_scope(p), LAMBDA p1 :
        IF p1.src_depth > 0 THEN Fail(p1, "SyntaxExpected")
        ELSE
    Try(keep_node(p1, nid), LAMBDA p2 :
    Try(unkeep_node(p2, nid), LAMBDA p3 :
        [p3 EXCEPT !.phase = "done", !.result = nid, !.ret = nid]))))

\* parse() after parse_block returned Ok(nid)
finish_parse(p, nid) ==
  AbortOnErr(
    Try(pop_scope(p), LAMBDA p1 :
        IF p1.src_depth > 0 THEN Fail(p1, "SyntaxExpected")
        ELSE
    Try(keep_node(p1, nid), LAMBDA p2 :
    Try(unkeep_node(
          DropLoop(p2, drop_unused_nodes_cap(p2.graph, SweepCap)), nid),
        LAMBDA p3 :
        [p3 EXCEPT !.phase = "done", !.result = nid, !.ret = nid]))))

\* parse_block from require("}") on, and what its caller does with Ok(node)
leave_block(p) ==
  LET node == p.frames[Len(p.frames)].node
      rest == SubSeq(p.frames, 1, Len(p.frames) - 1)
  IN AbortOnErr(
       Try(pop_scope([p EXCEPT !.src_depth = @ - 1]), LAMBDA p1 :
           IF rest = <<>> THEN finish_parse([p1 EXCEPT !.frames = rest], node)
           ELSE [p1 EXCEPT !.frames = [rest EXCEPT ![Len(rest)] =
                                         [node |-> node, first |-> FALSE]],
                           !.ret = node]))

\* parse() up to the first statement of the outermost block
\* ctrl (p2.ret) is pinned while the projection of arg (p5.ret) is added
begin_parse(p) ==
  AbortOnErr(
    Try(push_scope(p), LAMBDA p1 :
    Try(add_node_unrefined(p1, <<START_NID>>,
                           <<UidAt(p1.graph, START_NID)>>, "Proj", 0),
        LAMBDA p2 :
    Try(keep_node(p2, p2.ret), LAMBDA p3 :
    Try(with_kept_node_exit(
          add_node_unrefined(p3, <<START_NID>>,
                             <<UidAt(p3.graph, START_NID)>>, "Proj", 1),
          p2.ret), LAMBDA p5 :
    Try(define_var(p5, "$ctrl", p2.ret), LAMBDA p6 :
    Try(define_var(p6, "arg", p5.ret), LAMBDA p7 :
        enter_block([p7 EXCEPT !.phase = "parsing"]))))))))

(***************************************************************************)
(* Construction: Parser::new_internal.                                     *)
(***************************************************************************)
BlankParser ==
  [graph |-> <<>>, counter |-> 0, err |-> "", ret |-> -1, retuid |-> -1,
   scopes |-> <<>>, do_optimize |-> TRUE, stale |-> FALSE, frames |-> <<>>,
   src_depth |-> 0, phase |-> "new", result |-> -1, extra |-> -1,
   sweeps |-> <<>>, cleared |-> <<>>, depth |-> 0, panic_at |-> ""]

new_internal(arg) ==
  Try(add_node_unrefined(BlankParser, <<>>, <<>>, "KeepAlive", 0), LAMBDA p1 :
  Try(add_node_unrefined(p1, <<>>, <<>>, "Scope", 0), LAMBDA p2 :
  Try(keep_node(p2, p2.ret), LAMBDA p3 :
  Try(add_node(p3, <<>>, <<>>, "Start", 0, Tuple(<<Ctrl, arg>>)), LAMBDA p4 :
  Try(keep_node(p4, p4.ret), LAMBDA p5 :
      [p5 EXCEPT !.ret = -1, !.retuid = -1])))))

(***************************************************************************)
(* Programs fed to the parser.                                             *)
(***************************************************************************)
Lits == 0..MaxLit
\* identifiers a program may use ($ctrl is not an identifier of the lexer)
Idents == {"arg", "a"}
\* names a program declares or assigns
Targets == {"a"}
\* values the argument of the compiled program may take
ArgVals == 0..(MaxLit + 1)
\* Parser::new_noarg gives arg the type IntBot, Parser::new(_, k) Int{k}
ArgTyps == {IntBot, IntC(MaxLit + 1)}

Leaves == {Num(v) : v \in Lits} \cup {Var(n) : n \in Idents}

RECURSIVE ExprsN(_)
\* parse trees with exactly n operators
ExprsN(n) ==
  IF n = 0 THEN Leaves
  ELSE {Neg(e) : e \in ExprsN(n - 1)}
       \cup UNION {{Bin(op, l, r) : op \in BinOps, l \in ExprsN(i),
                                    r \in ExprsN(n - 1 - i)} : i \in 0..(n - 1)}

\* parse trees with at most n operators
ExprsUpTo(n) == UNION {ExprsN(k) : k \in 0..n}

RECURSIVE OpsOf(_)
\* number of operators of a parse tree
OpsOf(e) ==
  IF e.kids = <<>> THEN 0
  ELSE IF Len(e.kids) = 1 THEN 1 + OpsOf(e.kids[1])
  ELSE 1 + OpsOf(e.kids[1]) + OpsOf(e.kids[2])

(***************************************************************************)
(* State machine.  pOn and pOff are two Parser instances fed the same      *)
(* program, pOn with do_optimize = true and pOff with do_optimize = false. *)
(* last_stmt holds the simple statement consumed last (s), the size of the  *)
(* program consumed so far (n) and the kind of the last step (tok).        *)
(***************************************************************************)
EmptyArena == [graph |-> <<>>, counter |-> 0, err |-> "", ret |-> -1]
\* no call of a pure function on record
NoCall == [op |-> "none", a |-> Bot, b |-> Bot, c |-> Bot,
           out |-> <<>>, res |-> ""]

Init ==
  /\ arena = EmptyArena
  /\ arena_op = [name |-> "init", n |-> 0]
  /\ \E arg \in ArgTyps :
       /\ pOn = new_internal(arg)
       /\ pOff = [new_internal(arg) EXCEPT !.do_optimize = FALSE]
  /\ last_stmt = [s |-> NoStmt("init"), n |-> 0, tok |-> "init"]
  /\ call = NoCall
  /\ overflow_checks = TRUE

\* the parser whose position in the text the guards read (both agree while
\* both are parsing)
Cur == IF pOff.phase = "parsing" THEN pOff ELSE pOn
Parsing == pOn.phase = "parsing" \/ pOff.phase = "parsing"
On(p, Op(_)) == IF p.phase = "parsing" THEN Op(p) ELSE p

\* Before parse() a caller adds a node nobody observes and does not pin it
\* (add_node_unrefined(vec![], NodeKind::Start)); it counts toward the size.
AddUnkeptStart ==
  /\ pOn.phase = "new" /\ pOff.phase = "new"
  /\ last_stmt.n = 0
  /\ LET Op(p) == add_node_unrefined([p EXCEPT !.err = ""], <<>>, <<>>, "Start", 0)
     IN /\ pOn' = [Op(pOn) EXCEPT !.extra = Op(pOn).retuid]
        /\ pOff' = [Op(pOff) EXCEPT !.extra = Op(pOff).retuid]
  /\ last_stmt' = [last_stmt EXCEPT !.n = 1, !.tok = "extra"]
  /\ UNCHANGED <<arena, arena_op, call, overflow_checks>>

\* parse() is called on both parsers
ParseBegin ==
  /\ pOn.phase = "new" /\ pOff.phase = "new"
  /\ pOn' = begin_parse(pOn)
  /\ pOff' = begin_parse(pOff)
  /\ last_stmt' = [last_stmt EXCEPT !.tok = "begin"]
  /\ UNCHANGED <<arena, arena_op, call, overflow_checks>>

\* the text continues with a simple statement
MoreStatements ==
  /\ Parsing
  /\ Cur.frames # <<>>
  /\ last_stmt.n < MaxSize

\* expressions the rest of the size budget allows in the next statement
Exprs == ExprsUpTo(MaxSize - 1 - last_stmt.n)

Consume(s) ==
  /\ LET Op(p) == BlockTakes(parse_statement([p EXCEPT !.err = ""], s))
     IN /\ pOn' = On(pOn, Op)
        /\ pOff' = On(pOff, Op)
  /\ last_stmt' = [s |-> s, n |-> last_stmt.n + 1 + OpsOf(s.e), tok |-> "stmt"]
  /\ UNCHANGED <<arena, arena_op, call, overflow_checks>>

DeclStmnt ==
  /\ MoreStatements
  /\ \E n \in Targets, e \in Exprs : Consume(DeclStmt(n, e))

ExpressionStmnt ==
  /\ MoreStatements
  /\ \E n \in Targets, e \in Exprs : Consume(AssignStmt(n, e))

ReturnStmnt ==
  /\ MoreStatements
  /\ \E e \in Exprs : Consume(ReturnStmt(e))

ShowGraph ==
  /\ MoreStatements
  /\ Consume(ShowStmt)

\* the text continues with '{'
BeginBlock ==
  /\ Parsing
  /\ Cur.frames # <<>>
  /\ Cur.src_depth < 1 + MaxDepth
  /\ last_stmt.n < MaxSize
  /\ pOn' = On(pOn, enter_block)
  /\ pOff' = On(pOff, enter_block)
  /\ last_stmt' = [last_stmt EXCEPT !.tok = "{"]
  /\ UNCHANGED <<arena, arena_op, call, overflow_checks>>

\* the text continues with '}'; closing the outermost block ends parse()
EndBlock ==
  /\ Parsing
  /\ Cur.frames # <<>>
  /\ ~Cur.frames[Len(Cur.frames)].first
  /\ pOn' = On(pOn, leave_block)
  /\ pOff' = On(pOff, leave_block)
  /\ last_stmt' = [last_stmt EXCEPT !.tok = "}"]
  /\ UNCHANGED <<arena, arena_op, call, overflow_checks>>

\* the parser after drop_unused_nodes_cap returned r
SweptBy(p, r) ==
  [p EXCEPT !.graph = r.graph, !.ret = r.n, !.cleared = r.cleared,
            !.phase = "swept"]

\* a parser takes the call once parse() has returned
Sweepable(p) == p.phase = "done" /\ p.err # "panic"

\* drop_unused_nodes_cap(cap) called on the parsers after parse()
DropUnusedNodesCap ==
  /\ ~Parsing
  /\ Sweepable(pOn) \/ Sweepable(pOff)
  /\ \E cap \in 0..MaxCap :
       /\ pOn' = IF Sweepable(pOn)
                 THEN SweptBy(pOn, drop_unused_nodes_cap(pOn.graph, cap))
                 ELSE pOn
       /\ pOff' = IF Sweepable(pOff)
                  THEN SweptBy(pOff, drop_unused_nodes_cap(pOff.graph, cap))
                  ELSE pOff
       /\ arena_op' = [name |-> "drop_unused_nodes_cap", n |-> cap]
  /\ last_stmt' = [last_stmt EXCEPT !.tok = "sweep"]
  /\ UNCHANGED <<arena, call, overflow_checks>>

Next ==
  \/ DropUnusedNodesCap
  \/ AddUnkeptStart
  \/ ParseBegin
  \/ DeclStmnt
  \/ ExpressionStmnt
  \/ ReturnStmnt
  \/ ShowGraph
  \/ BeginBlock
  \/ EndBlock

Spec == Init /\ [][Next]_vars

(***************************************************************************)
(* The arena on its own: new_node and remove_dependency_br called in any   *)
(* order on an arena that starts empty.                                    *)
(***************************************************************************)
ArenaSlots == 0..MaxArenaSlot
ArenaInputs == {<<>>} \cup {<<i>> : i \in ArenaSlots}
                 \cup {<<i, j>> : i \in ArenaSlots, j \in ArenaSlots}

InitArena ==
  /\ arena = EmptyArena
  /\ arena_op = [name |-> "init", n |-> 0]
  /\ pOn = new_internal(IntBot)
  /\ pOff = [new_internal(IntBot) EXCEPT !.do_optimize = FALSE]
  /\ last_stmt = [s |-> NoStmt("init"), n |-> 0, tok |-> "init"]
  /\ call = NoCall
  /\ overflow_checks = TRUE

ArenaReady == arena_op.n < MaxArenaOps /\ arena.err # "panic"

ArenaNewNode ==
  /\ ArenaReady
  /\ \E inputs \in ArenaInputs, kind \in {"Constant", "Add"},
        typ \in {Bot, IntC(1)} :
       /\ kind = "Add" => (Len(inputs) = 2 /\ typ = Bot)
       /\ arena' = new_node([arena EXCEPT !.err = "", !.ret = -1],
                            inputs, kind, 0, typ)
  /\ arena_op' = [name |-> "new_node", n |-> arena_op.n + 1]
  /\ call' = NoCall
  /\ UNCHANGED <<pOn, pOff, last_stmt, overflow_checks>>

\* call.a.c and call.b.c record the arguments nid and dep_nid of the call
ArenaRemoveDependency ==
  /\ ArenaReady
  /\ \E nid \in ArenaSlots, dep_nid \in ArenaSlots :
       /\ arena' = remove_dependency_br([arena EXCEPT !.err = "", !.ret = -1],
                                        nid, dep_nid)
       /\ call' = [NoCall EXCEPT !.op = "remove_dependency_br",
                                 !.a = IntC(nid), !.b = IntC(dep_nid)]
  /\ arena_op' = [name |-> "remove_dependency", n |-> arena_op.n + 1]
  /\ UNCHANGED <<pOn, pOff, last_stmt, overflow_checks>>

\* one more edge nid -> dep_nid from a live node nid (the parser's callers,
\* keep_node and define_var, pass KeepAlive and Scope), recorded on both
\* sides in the order those callers use
ArenaAddDependency ==
  /\ ArenaReady
  /\ \E nid \in ArenaSlots, dep_nid \in ArenaSlots :
       /\ node_exists(arena.graph, nid)
       /\ arena' = Try(add_reverse_dependencies_br(
                         [arena EXCEPT !.err = "", !.ret = -1], nid, <<dep_nid>>),
                       LAMBDA G : add_dependencies_br(G, nid, <<dep_nid>>))
       /\ call' = [NoCall EXCEPT !.op = "add_dependencies_br",
                                 !.a = IntC(nid), !.b = IntC(dep_nid)]
  /\ arena_op' = [name |-> "add_dependency", n |-> arena_op.n + 1]
  /\ UNCHANGED <<pOn, pOff, last_stmt, overflow_checks>>

NextArena == ArenaNewNode \/ ArenaRemoveDependency \/ ArenaAddDependency

SpecArena == InitArena /\ [][NextArena]_vars

(***************************************************************************)
(* The lattice on its own: the functions of typ/typ.rs and Node::refine_typ *)
(* applied to operands a, b, c drawn from Typs.  call records the operands, *)
(* the function applied last (op), the values it returned (out) and, for    *)
(* transition_allowed and refine_typ, the answer (res).                     *)
(***************************************************************************)
Typs == {Bot, Top, IntC(0), IntC(1), IntTop, IntBot,
         Tuple(<<Ctrl>>), Tuple(<<Ctrl, IntBot>>), TupleTop, TupleBot, Ctrl}

InitTyp ==
  /\ arena = EmptyArena
  /\ arena_op = [name |-> "init", n |-> 0]
  /\ pOn = new_internal(IntBot)
  /\ pOff = [new_internal(IntBot) EXCEPT !.do_optimize = FALSE]
  /\ last_stmt = [s |-> NoStmt("init"), n |-> 0, tok |-> "init"]
  /\ \E a \in Typs, b \in Typs, c \in Typs :
       call = [NoCall EXCEPT !.op = "input", !.a = a, !.b = b, !.c = c]
  /\ overflow_checks = TRUE

\* meet in both orders and both groupings of the operands
TypMeet ==
  /\ call.op # "none"
  /\ call' = [call EXCEPT !.op = "meet", !.res = "",
                !.out = <<meet(call.a, call.b), meet(call.b, call.a),
                          meet(meet(call.a, call.b), call.c),
                          meet(call.a, meet(call.b, call.c))>>]
  /\ UNCHANGED <<arena, arena_op, pOn, pOff, last_stmt, overflow_checks>>

\* join in both orders and both groupings of the operands
TypJoin ==
  /\ call.op # "none"
  /\ call' = [call EXCEPT !.op = "join", !.res = "",
                !.out = <<join(call.a, call.b), join(call.b, call.a),
                          join(join(call.a, call.b), call.c),
                          join(call.a, join(call.b, call.c))>>]
  /\ UNCHANGED <<arena, arena_op, pOn, pOff, last_stmt, overflow_checks>>

\* dual once and twice, and the meet of the duals taken back through dual
TypDual ==
  /\ call.op # "none"
  /\ call' = [call EXCEPT !.op = "dual", !.res = "",
                !.out = <<dual(call.a), dual(dual(call.a)),
                          join(call.a, call.b),
                          dual(meet(dual(call.a), dual(call.b)))>>]
  /\ UNCHANGED <<arena, arena_op, pOn, pOff, last_stmt, overflow_checks>>

TypTransitionAllowed ==
  /\ call.op # "none"
  /\ call' = [call EXCEPT !.op = "transition_allowed", !.out = <<>>,
                !.res = transition_allowed(call.a, call.b)]
  /\ UNCHANGED <<arena, arena_op, pOn, pOff, last_stmt, overflow_checks>>

\* refine_typ(b) on a node of type a, held in slot 0 of an arena
TypRefine ==
  /\ call.op # "none"
  /\ LET G == refine_typ(
                [EmptyArena EXCEPT !.graph = <<Node("Constant", 0, 0, call.a)>>],
                0, call.b)
     IN call' = [call EXCEPT !.op = "refine_typ", !.res = G.err,
                             !.out = <<G.graph[1].typ>>]
  /\ UNCHANGED <<arena, arena_op, pOn, pOff, last_stmt, overflow_checks>>

NextTyp ==
  TypMeet \/ TypJoin \/ TypDual \/ TypTransitionAllowed \/ TypRefine

SpecTyp == InitTyp /\ [][NextTyp]_vars

(***************************************************************************)
(* The refiner on its own: an arithmetic node made over two Constant nodes *)
(* carrying Int{a} and Int{b}, for every a and b of the integer width, in  *)
(* a build with overflow checks and in one without.  call records the      *)
(* operands, arena_op the kind of the node made.                           *)
(***************************************************************************)
\* the arena holding Constant a in slot 0 and Constant b in slot 1
FoldOperands(a, b) ==
  Try(new_node(EmptyArena, <<>>, "Constant", 0, IntC(a)), LAMBDA G1 :
      new_node(G1, <<>>, "Constant", 0, IntC(b)))

InitFold ==
  /\ arena_op = [name |-> "init", n |-> 0]
  /\ pOn = new_internal(IntBot)
  /\ pOff = [new_internal(IntBot) EXCEPT !.do_optimize = FALSE]
  /\ last_stmt = [s |-> NoStmt("init"), n |-> 0, tok |-> "init"]
  /\ overflow_checks \in BOOLEAN
  /\ \E a \in I64, b \in I64 :
       /\ arena = FoldOperands(a, b)
       /\ call = [NoCall EXCEPT !.op = "input", !.a = IntC(a), !.b = IntC(b)]

\* new_node(inputs, kind, Bot) over the two operands, once per pair
FoldNode ==
  /\ arena_op.n = 0
  /\ \E kind \in {"Add", "Sub", "Mul", "Div", "Minus"} :
       /\ arena' = new_node([arena EXCEPT !.err = "", !.ret = -1],
                            IF kind = "Minus" THEN <<0>> ELSE <<0, 1>>,
                            kind, 0, Bot)
       /\ arena_op' = [name |-> kind, n |-> 1]
  /\ UNCHANGED <<pOn, pOff, last_stmt, call, overflow_checks>>

SpecFold == InitFold /\ [][FoldNode]_vars

(***************************************************************************)
(* Properties of the arena.                                                *)
(***************************************************************************)
\* the lists of slot i as a caller reads them; an absent slot has none
OutputsOf(g, i) == IF i >= 0 /\ i < Len(g) THEN g[i + 1].outputs ELSE <<>>
InputsOf(g, n) == IF n >= 0 /\ n < Len(g) THEN g[n + 1].inputs ELSE <<>>

\* slots that occur in the arena g, as a slot or inside a list
SlotsOf(g) ==
  (0..(Len(g) - 1))
    \cup UNION {{g[k].inputs[j] : j \in 1..Len(g[k].inputs)} : k \in 1..Len(g)}
    \cup UNION {{g[k].outputs[j] : j \in 1..Len(g[k].outputs)} : k \in 1..Len(g)}

\* edge-count invariant, both directions: for every live node n and every
\* slot i, n occurs in outputs(i) as often as i occurs in inputs(n)
EdgeCountInv(g) ==
  \A n \in SlotsOf(g), i \in SlotsOf(g) :
    node_exists(g, n) => Count(OutputsOf(g, i), n) = Count(InputsOf(g, n), i)

\* C9: for all sequences of new_node and remove_dependency calls starting
\* from an empty arena, the edge-count invariant holds in both directions in
\* every reachable state.
C9_EdgeCountAlways == EdgeCountInv(arena.graph)

\* C10: every arena operation that returns NodeIdNotExisting leaves every
\* slot, input list and output list of the arena as it was before the call.
C10_FailureLeavesArenaUnchanged ==
  [][arena'.err = "NodeIdNotExisting" => arena'.graph = arena.graph]_vars

(***************************************************************************)
(* Properties of the parser.                                               *)
(***************************************************************************)
\* Value of a data node of the graph g when the program runs with argument
\* argv: [ok, v], ok = FALSE when the evaluation divides by zero or meets a
\* slot that holds no data node.  fuel bounds the depth of the walk.
Trap == [ok |-> FALSE, v |-> 0]
Val(v) == [ok |-> TRUE, v |-> v]

RECURSIVE GraphEval(_, _, _, _)
GraphEval(g, nid, argv, fuel) ==
  IF fuel = 0 \/ ~node_exists(g, nid) THEN Trap
  ELSE
    LET node == g[nid + 1]
        In(i) == IF i <= Len(node.inputs)
                 THEN GraphEval(g, node.inputs[i], argv, fuel - 1) ELSE Trap
    IN CASE node.kind = "Constant" ->
              (IF node.typ.t = "Int" THEN Val(node.typ.c) ELSE Trap)
         [] node.kind = "Proj" ->
              (IF node.pidx = 1 /\ node.inputs = <<START_NID>> THEN Val(argv)
               ELSE Trap)
         [] node.kind = "Minus" ->
              (IF In(1).ok THEN Val(0 - In(1).v) ELSE Trap)
         [] node.kind \in BinOps ->
              (IF ~In(1).ok \/ ~In(2).ok THEN Trap
               ELSE CASE node.kind = "Add" -> Val(In(1).v + In(2).v)
                      [] node.kind = "Sub" -> Val(In(1).v - In(2).v)
                      [] node.kind = "Mul" -> Val(In(1).v * In(2).v)
                      [] OTHER -> (IF In(2).v = 0 THEN Trap
                                   ELSE Val(IntDiv(In(1).v, In(2).v))))
         [] OTHER -> Trap

\* parse() returned Ok(t) and t is a Return node
ReturnsOk(p) ==
  /\ p.phase = "done" /\ p.err = ""
  /\ node_exists(p.graph, p.result)
  /\ p.graph[p.result + 1].kind = "Return"
  /\ Len(p.graph[p.result + 1].inputs) = 2

\* the value the returned Return node computes for argument argv
ReturnValue(p, argv) ==
  GraphEval(p.graph, p.graph[p.result + 1].inputs[2], argv, Len(p.graph))

\* the arguments the parser was constructed for: any, or the one constant
ActualArgs(p) ==
  LET t == p.graph[START_NID + 1].typ.typs[2]
  IN IF t.t = "Int" THEN {t.c} ELSE ArgVals

\* C1: whenever parse() succeeds with the optimizer off and returns a Return
\* node, parse() with the optimizer on succeeds too and its Return node
\* computes the same value for the actual argument.
C1_OptimizerPreservesValue ==
  ReturnsOk(pOff) =>
    /\ ReturnsOk(pOn)
    /\ \A argv \in ActualArgs(pOff) :
         ReturnValue(pOn, argv) = ReturnValue(pOff, argv)

\* C2: during parse(), every slot id passed as an input to add_node still
\* holds the node (same unique id) its caller obtained it for, and parse()
\* never fails with NodeIdNotExisting.
C2_HeldNodesSurvive ==
  /\ ~pOn.stale /\ pOn.err # "NodeIdNotExisting"
  /\ ~pOff.stale /\ pOff.err # "NodeIdNotExisting"

\* the topmost map of the scope stack binds name
TopBinds(p, name) ==
  p.scopes # <<>> /\ p.scopes[Len(p.scopes)][name] # NoBinding

\* lookup of name once the topmost map is popped
OuterLookup(p, name) ==
  get_var([p EXCEPT !.scopes = SubSeq(@, 1, Len(@) - 1)], name)

\* the expression e parses without error in state p
ExprParses(p, e) == parse_expression([p EXCEPT !.err = ""], e).err = ""

\* what the declaration s must do, p before and q after it
DeclContract(p, q, s) ==
  (p.phase = "parsing" /\ ExprParses(p, s.e)) =>
    IF TopBinds(p, s.name) THEN q.err = "VariableRedefinition"
    ELSE /\ q.err = ""
         /\ TopBinds(q, s.name)
         /\ get_var(q, s.name) = q.ret
         /\ OuterLookup(q, s.name) = get_var(p, s.name)

\* what closing a block must do to lookup, p before and q after it
PopContract(p, q) ==
  (p.phase = "parsing" /\ q.phase = "parsing") =>
    \A n \in Names : get_var(q, n) = OuterLookup(p, n)

\* C5: a declaration fails with VariableRedefinition exactly when its name
\* is bound in the topmost scope map; bound only in an enclosing level it
\* succeeds and shadows it, and closing the block restores the outer binding.
C5_RedefinitionOnlyAtSameLevel ==
  [][/\ (last_stmt'.tok = "stmt" /\ last_stmt'.s.t = "decl") =>
          /\ DeclContract(pOn, pOn', last_stmt'.s)
          /\ DeclContract(pOff, pOff', last_stmt'.s)
     /\ last_stmt'.tok = "}" =>
          /\ PopContract(pOn, pOn')
          /\ PopContract(pOff, pOff')]_vars

\* what the assignment s must do, p before and q after it
AssignContract(p, q, s) ==
  (p.phase = "parsing" /\ ExprParses(p, s.e)) =>
    IF get_var(p, s.name) = NoBinding THEN q.err = "VariableUndefined"
    ELSE LET old == get_var(p, s.name)
         IN /\ q.err = ""
            /\ get_var(q, s.name) = q.ret
            /\ old # q.ret =>
                 Count(q.graph[SCOPE_NID + 1].inputs, old)
                   = Count(p.graph[SCOPE_NID + 1].inputs, old) - 1

\* C6: an assignment succeeds whenever its name is bound at any level of the
\* scope stack, and lookup then returns the new node; it fails with
\* VariableUndefined exactly when the name is bound nowhere; it never aborts.
C6_AssignmentAtAnyLevel ==
  [][(last_stmt'.tok = "stmt" /\ last_stmt'.s.t = "assign") =>
       /\ AssignContract(pOn, pOn', last_stmt'.s)
       /\ AssignContract(pOff, pOff', last_stmt'.s)]_vars

\* what #showGraph; must do, p before and q after it
ShowContract(p, q) ==
  p.phase = "parsing" =>
    /\ q.phase = "parsing" /\ q.err = ""
    /\ q.frames = p.frames /\ q.scopes = p.scopes

\* C7: the sentinel DebugPropagateControlFlowUpward is never returned by
\* parse(): #showGraph; at any statement position, the first of a block
\* included, is absorbed and parsing continues with the next statement.
C7_SentinelAbsorbed ==
  [][(last_stmt'.tok = "stmt" /\ last_stmt'.s.t = "show") =>
       /\ ShowContract(pOn, pOn')
       /\ ShowContract(pOff, pOff')]_vars

\* value of the variable name in state p when it is bound to a Constant node
VarValue(p, name) ==
  LET nid == get_var(p, name)
  IN IF nid # NoBinding /\ node_exists(p.graph, nid)
        /\ p.graph[nid + 1].kind = "Constant" /\ p.graph[nid + 1].typ.t = "Int"
     THEN Val(p.graph[nid + 1].typ.c) ELSE Trap

RECURSIVE EvalExpr(_, _)
\* integer value of the parse tree e under the grammar's grouping, with the
\* variables read in state p; not ok when e reads a variable that is not
\* bound to a constant or divides by zero
EvalExpr(p, e) ==
  CASE e.op = "num" -> Val(e.v)
    [] e.op = "var" -> VarValue(p, e.name)
    [] e.op = "Minus" ->
         (LET a == EvalExpr(p, e.kids[1])
          IN IF a.ok THEN Val(0 - a.v) ELSE Trap)
    [] OTHER ->
         LET a == EvalExpr(p, e.kids[1])
             b == EvalExpr(p, e.kids[2])
         IN IF ~a.ok \/ ~b.ok THEN Trap
            ELSE CASE e.op = "Add" -> Val(a.v + b.v)
                   [] e.op = "Sub" -> Val(a.v - b.v)
                   [] e.op = "Mul" -> Val(a.v * b.v)
                   [] OTHER -> (IF b.v = 0 THEN Trap
                                ELSE Val(IntDiv(a.v, b.v)))

\* slot nid of g holds a Constant node carrying the integer v
IsConstantOf(g, nid, v) ==
  /\ node_exists(g, nid)
  /\ g[nid + 1].kind = "Constant"
  /\ g[nid + 1].typ = IntC(v)
  /\ g[nid + 1].inputs = <<>>

\* slot nid of g holds a Return node with control input c; its value input
IsReturn(g, nid, c) ==
  /\ node_exists(g, nid)
  /\ g[nid + 1].kind = "Return"
  /\ Len(g[nid + 1].inputs) = 2
  /\ g[nid + 1].inputs[1] = c
ValueInput(g, nid) == g[nid + 1].inputs[2]

\* what a statement s over a constant expression must give with the
\* optimizer on, p before and q after it
FoldContract(p, q, s) ==
  (p.phase = "parsing" /\ s.t \in {"return", "decl", "assign"}
     /\ EvalExpr(p, s.e).ok) =>
    IF s.t = "return"
    THEN /\ q.err = "" /\ q.phase = "parsing"
         /\ IsReturn(q.graph, q.ret, ctrl(p))
         /\ IsConstantOf(q.graph, ValueInput(q.graph, q.ret), EvalExpr(p, s.e).v)
    ELSE q.err = "" => IsConstantOf(q.graph, q.ret, EvalExpr(p, s.e).v)

\* what the end of parse() must keep of the node t its outermost block ended
\* with, p before and q after the closing of the outermost block
FinishContract(p, q) ==
  (p.phase = "parsing" /\ q.phase = "done" /\ q.err = "") =>
    LET t == p.frames[Len(p.frames)].node
    IN /\ q.result = t
       /\ node_exists(q.graph, t)
       /\ q.graph[t + 1].kind = p.graph[t + 1].kind
       /\ q.graph[t + 1].inputs = p.graph[t + 1].inputs
       /\ \A i \in 1..Len(p.graph[t + 1].inputs) :
            LET c == p.graph[t + 1].inputs[i]
            IN /\ node_exists(q.graph, c)
               /\ q.graph[c + 1].kind = p.graph[c + 1].kind
               /\ q.graph[c + 1].typ = p.graph[c + 1].typ

\* C3: with the optimizer on, a return statement whose expression is built
\* from integer literals, variables bound to constants, unary minus, +, -, *
\* and / with a non-zero divisor yields a Return node whose value input is a
\* single Constant carrying the value of the expression (a declaration or
\* assignment of such an expression binds such a Constant), and parse()
\* returns that Return node unchanged.
C3_ConstantFolding ==
  [][/\ last_stmt'.tok = "stmt" => FoldContract(pOn, pOn', last_stmt'.s)
     /\ last_stmt'.tok = "}" => FinishContract(pOn, pOn')]_vars

\* parse() returned a Return of a folded expression with MaxSize - 1 operators
C3_Witness ==
  /\ ReturnsOk(pOn)
  /\ last_stmt.tok = "}" /\ last_stmt.s.t = "return"
  /\ OpsOf(last_stmt.s.e) = MaxSize - 1
  /\ pOn.graph[ValueInput(pOn.graph, pOn.result) + 1].kind = "Constant"

RECURSIVE TransitiveInputs(_, _)
\* the slots in S and the slots connected to them by chains of inputs
TransitiveInputs(g, S) ==
  LET T == S \cup UNION {{g[n + 1].inputs[i] : i \in 1..Len(g[n + 1].inputs)} :
                           n \in {m \in S : node_exists(g, m)}}
  IN IF T = S THEN S ELSE TransitiveInputs(g, T)

LiveSlots(g) == {n \in 0..(Len(g) - 1) : node_exists(g, n)}

\* after parse() returned Ok(t): nothing lives but the three fixed nodes, t
\* and the transitive inputs of t
Collected(p) ==
  (p.phase = "done" /\ p.err = "") =>
    /\ LiveSlots(p.graph) \subseteq
         {KEEP_ALIVE_NID, SCOPE_NID, START_NID}
           \cup TransitiveInputs(p.graph, {p.result})
    /\ p.extra # -1 =>
         \A n \in LiveSlots(p.graph) : p.graph[n + 1].uid # p.extra

RECURSIVE Mirrors(_, _, _, _)
\* the node in slot nid of g is the parse tree e: one node per literal and
\* operator, of the operator's kind, with its operands as inputs in order;
\* a variable is the slot bound to it in state p
Mirrors(g, nid, e, p) ==
  /\ node_exists(g, nid)
  /\ CASE e.op = "num" -> IsConstantOf(g, nid, e.v)
       [] e.op = "var" -> nid = get_var(p, e.name)
       [] e.op = "Minus" ->
            /\ g[nid + 1].kind = "Minus"
            /\ Len(g[nid + 1].inputs) = 1
            /\ Mirrors(g, g[nid + 1].inputs[1], e.kids[1], p)
       [] OTHER ->
            /\ g[nid + 1].kind = e.op
            /\ Len(g[nid + 1].inputs) = 2
            /\ Mirrors(g, g[nid + 1].inputs[1], e.kids[1], p)
            /\ Mirrors(g, g[nid + 1].inputs[2], e.kids[2], p)

\* every node of g carries the type the refiner computes for it
TypesRefined(g) ==
  \A n \in LiveSlots(g) : compute_refined_typ(g, g[n + 1]) = TypOk(g[n + 1].typ)

\* right after parse() bound them: $ctrl and arg are the projections of
\* Start, typed Ctrl and as the argument
ProjectionsTyped(q) ==
  /\ node_exists(q.graph, get_var(q, "$ctrl"))
  /\ q.graph[get_var(q, "$ctrl") + 1].kind = "Proj"
  /\ q.graph[get_var(q, "$ctrl") + 1].typ = Ctrl
  /\ node_exists(q.graph, get_var(q, "arg"))
  /\ q.graph[get_var(q, "arg") + 1].kind = "Proj"
  /\ q.graph[get_var(q, "arg") + 1].typ = q.graph[START_NID + 1].typ.typs[2]

\* what a statement s that succeeds must have built with the optimizer off,
\* p before and q after it
MirrorContract(p, q, s) ==
  (p.phase = "parsing" /\ q.err = "" /\ s.t \in {"return", "decl", "assign"}) =>
    /\ IF s.t = "return"
       THEN /\ IsReturn(q.graph, q.ret, ctrl(p))
            /\ Mirrors(q.graph, ValueInput(q.graph, q.ret), s.e, p)
       ELSE Mirrors(q.graph, q.ret, s.e, p)
    /\ TypesRefined(q.graph)

\* C8: with do_optimize = false the graph mirrors the parse tree (add_node
\* hands back the node new_node made, of the requested kind, with the
\* requested inputs in order, nothing folded or rewritten), and every node
\* carries its refined type: arg the argument's type, $ctrl the type Ctrl.
C8_UnoptimizedMirrorsParseTree ==
  [][/\ last_stmt'.tok = "stmt" => MirrorContract(pOff, pOff', last_stmt'.s)
     /\ (last_stmt'.tok = "begin" /\ pOff'.err = "") =>
          /\ ProjectionsTyped(pOff')
          /\ TypesRefined(pOff'.graph)]_vars

\* with the optimizer off a return of an expression with MaxSize - 1 operators
\* was parsed, and its value is an operator node of constant type
C8_Witness ==
  /\ pOff.phase = "parsing" /\ pOff.err = ""
  /\ last_stmt.tok = "stmt" /\ last_stmt.s.t = "return"
  /\ OpsOf(last_stmt.s.e) = MaxSize - 1
  /\ IsReturn(pOff.graph, pOff.ret, ctrl(pOff))
  /\ pOff.graph[ValueInput(pOff.graph, pOff.ret) + 1].kind \in BinOps
  /\ pOff.graph[ValueInput(pOff.graph, pOff.ret) + 1].typ.t = "Int"
  /\ pOff.graph[get_var(pOff, "arg") + 1].typ.t = "Int"

(***************************************************************************)
(* Properties of the lattice (SpecTyp).                                    *)
(***************************************************************************)
\* C11: transition_allowed(x, x) is true for every lattice element x, and
\* refine_typ of a node to the type it already has never fails with
\* TypTransitionNotAllowed.
C11_SelfTransitionAllowed ==
  /\ (call.op = "transition_allowed" /\ call.a = call.b) => call.res = "yes"
  /\ (call.op = "refine_typ" /\ call.a = call.b) =>
        call.res # "TypTransitionNotAllowed"

\* C12: meet and join are commutative and associative over all lattice
\* elements, and each of the calls returns a value.
C12_MeetJoinCommutativeAssociative ==
  call.op \in {"meet", "join"} =>
    /\ \A i \in 1..4 : call.out[i].t # "panic"
    /\ call.out[1] = call.out[2]
    /\ call.out[3] = call.out[4]

\* C13: dual(dual(x)) = x for every lattice element x, and join(a, b) =
\* dual(meet(dual(a), dual(b))) for all a, b; join(Top, Bot) = Top while
\* meet(Top, Bot) = Bot.
C13_DualInvolutionDefinesJoin ==
  /\ call.op = "dual" =>
        /\ call.out[2] = call.a
        /\ call.out[3] = call.out[4]
        /\ (call.a = Top /\ call.b = Bot) => call.out[3] = Top
  /\ (call.op = "meet" /\ call.a = Top /\ call.b = Bot) => call.out[1] = Bot

\* dual was applied to IntTop, giving IntBot and then IntTop again, and the
\* join of IntTop with Int{1} came out of the meet of IntBot with Int{1}
C13_Witness ==
  /\ call.op = "dual" /\ call.a = IntTop /\ call.b = IntC(1)
  /\ call.out[1] = IntBot /\ call.out[2] = IntTop
  /\ call.out[3] = IntTop /\ call.out[4] = IntTop

\* C14: refine_typ(new) on a node of type current succeeds, assigning new,
\* exactly when meet(current, new) = current, and otherwise returns
\* TypTransitionNotAllowed and leaves the type as it was.
C14_RefineOnlyAlongTransitions ==
  call.op = "refine_typ" =>
    IF meet(call.a, call.b) = call.a
    THEN call.res = "" /\ call.out[1] = call.b
    ELSE call.res = "TypTransitionNotAllowed" /\ call.out[1] = call.a

(***************************************************************************)
(* Properties of the refiner's arithmetic.                                 *)
(***************************************************************************)
\* C15: parsing the return of a constant divided by the constant 0 does not
\* crash: neither parser aborts in the refiner.
C15_DivisionByZeroLeftUnfolded ==
  [][(/\ last_stmt'.tok = "stmt" /\ last_stmt'.s.t = "return"
      /\ last_stmt'.s.e.op = "Div"
      /\ last_stmt'.s.e.kids[1].op = "num"
      /\ last_stmt'.s.e.kids[2] = Num(0)
      /\ pOn.phase = "parsing" /\ pOff.phase = "parsing")
       => (pOn'.err # "panic" /\ pOff'.err # "panic")]_vars

\* C16: folding Add, Sub, Mul and Minus over Int constants never aborts and
\* yields the exact result reduced modulo 2^WordBits into the signed range.
C16_FoldingWraps ==
  arena_op.name \in {"Add", "Sub", "Mul", "Minus"} =>
    /\ arena.err = ""
    /\ arena.graph[arena.ret + 1].typ =
         IntC(Wrap(CASE arena_op.name = "Add" -> call.a.c + call.b.c
                     [] arena_op.name = "Sub" -> call.a.c - call.b.c
                     [] arena_op.name = "Mul" -> call.a.c * call.b.c
                     [] OTHER -> 0 - call.a.c))

(***************************************************************************)
(* Properties of the collector.                                            *)
(***************************************************************************)
\* slots 0, 1 and 2 of p hold the nodes construction put there; construction
\* numbers them from 0, so that each carries its slot as unique id
Pinned(p) ==
  /\ Len(p.graph) >= 3
  /\ p.graph[KEEP_ALIVE_NID + 1].kind = "KeepAlive"
  /\ p.graph[KEEP_ALIVE_NID + 1].uid = KEEP_ALIVE_NID
  /\ p.graph[SCOPE_NID + 1].kind = "Scope"
  /\ p.graph[SCOPE_NID + 1].uid = SCOPE_NID
  /\ p.graph[START_NID + 1].kind = "Start"
  /\ p.graph[START_NID + 1].uid = START_NID

\* C17: in every state after construction - while parse() runs, after it and
\* after a drop_unused_nodes_cap call with any budget - slots 0, 1 and 2 hold
\* KeepAlive, Scope and Start under the unique ids construction gave them.
C17_PinnedSlotsKeep == Pinned(pOn) /\ Pinned(pOff)

\* drop_unused_nodes_cap(MaxCap) after a successful parse() deleted a node
\* of the optimizing parser, and the three slots are as construction left them
C17_Witness ==
  /\ arena_op.name = "drop_unused_nodes_cap" /\ arena_op.n = MaxCap
  /\ pOn.phase = "swept" /\ pOn.err = "" /\ pOn.ret >= 1
  /\ Pinned(pOn)

\* every input of a live node addresses a live cell whose output list holds
\* the node as many times as the node's input list holds the cell
InputsBacked(g) ==
  \A n \in LiveSlots(g) : \A k \in 1..Len(g[n + 1].inputs) :
    /\ node_exists(g, g[n + 1].inputs[k])
    /\ Count(OutputsOf(g, g[n + 1].inputs[k]), n)
         = Count(g[n + 1].inputs, g[n + 1].inputs[k])

\* C18: for every budget, drop_unused_nodes_cap called on an arena whose
\* edges are consistent leaves an arena whose edges are consistent, also when
\* the budget runs out in the middle of a cascade.
C18_SweepKeepsEdgeInvariant ==
  [][last_stmt'.tok = "sweep" =>
       /\ (Sweepable(pOn) /\ InputsBacked(pOn.graph))
            => InputsBacked(pOn'.graph)
       /\ (Sweepable(pOff) /\ InputsBacked(pOff.graph))
            => InputsBacked(pOff'.graph)]_vars

\* slots live in g and empty in h
ClearedSlots(g, h) == {n \in LiveSlots(g) : ~node_exists(h, n)}

\* the call with budget cap on p, leaving q
SweepContract(p, q, cap) ==
  Sweepable(p) =>
    /\ Cardinality(ClearedSlots(p.graph, q.graph)) <= cap
    /\ q.ret = Cardinality(ClearedSlots(p.graph, q.graph))
    /\ KEEP_ALIVE_NID \notin ClearedSlots(p.graph, q.graph)
    /\ LiveSlots(q.graph) \subseteq LiveSlots(p.graph)
    /\ {q.cleared[i].nid : i \in 1..Len(q.cleared)}
         = ClearedSlots(p.graph, q.graph)
    /\ \A i \in 1..Len(q.cleared) : q.cleared[i].outputs = <<>>
    /\ cap = 0 => q.graph = p.graph

\* C19: drop_unused_nodes_cap(cap) clears at most cap slots, returns the
\* number of slots it cleared, never clears slot 0, clears a node only when
\* its outputs are empty at that moment, and with cap = 0 changes nothing.
C19_SweepWithinBudget ==
  [][last_stmt'.tok = "sweep" =>
       /\ SweepContract(pOn, pOn', arena_op'.n)
       /\ SweepContract(pOff, pOff', arena_op'.n)]_vars

\* a call with budget MaxCap used the whole budget on the parser that does
\* not optimize
C19_Witness ==
  /\ arena_op.name = "drop_unused_nodes_cap" /\ arena_op.n = MaxCap
  /\ pOff.phase = "swept" /\ pOff.ret = MaxCap
  /\ Len(pOff.cleared) = MaxCap

\* parse() returned Ok(t): its closing loop ended, only its first sweep
\* deleted anything, and nothing is left to delete
LoopContract(p) ==
  (p.phase = "done" /\ p.err = "") =>
    /\ p.sweeps # <<>>
    /\ p.sweeps[Len(p.sweeps)] = 0
    /\ \A i \in 2..Len(p.sweeps) : p.sweeps[i] = 0
    /\ \A n \in LiveSlots(p.graph) \ {KEEP_ALIVE_NID, p.result} :
         p.graph[n + 1].outputs # <<>>

\* C20: the closing loop of parse() terminates; after it no live node other
\* than KeepAlive and the result has empty outputs; one sweep reaches that
\* state, so that the sweep after it deletes nothing.
C20_ClosingLoopReachesFixpoint == LoopContract(pOn) /\ LoopContract(pOff)

\* the closing loop made two sweeps: the first deleted nodes, the second none
C20_Witness ==
  /\ pOff.phase = "done" /\ pOff.err = ""
  /\ Len(pOff.sweeps) = 2 /\ pOff.sweeps[1] > 0 /\ pOff.sweeps[2] = 0

(***************************************************************************)
(* Properties of the scope bookkeeping.                                    *)
(***************************************************************************)
\* C21: between statements of parse() the Scope node's inputs hold each slot
\* exactly as often as the maps of the scope stack bind it, every bound slot
\* holds a live node, and that node lists the Scope slot in its outputs once
\* per binding.
C21_ScopeConsistency ==
  LET Bindings(p, nid) ==
        Cardinality({b \in (1..Len(p.scopes)) \X Names :
                       p.scopes[b[1]][b[2]] = nid})
      Consistent(p) ==
        (p.phase = "parsing" /\ p.err = "") =>
          /\ node_exists(p.graph, SCOPE_NID)
          /\ \A b \in (1..Len(p.scopes)) \X Names :
               p.scopes[b[1]][b[2]] # NoBinding =>
                 node_exists(p.graph, p.scopes[b[1]][b[2]])
          /\ \A nid \in 0..(Len(p.graph) - 1) :
               /\ Count(p.graph[SCOPE_NID + 1].inputs, nid) = Bindings(p, nid)
               /\ node_exists(p.graph, nid) =>
                    Count(p.graph[nid + 1].outputs, SCOPE_NID) = Bindings(p, nid)
  IN Consistent(pOn) /\ Consistent(pOff)

\* a was declared and then reassigned to arg: the projection of arg is bound
\* twice and occurs twice among the Scope node's inputs
C21_Witness ==
  /\ pOn.phase = "parsing" /\ pOn.err = ""
  /\ last_stmt.tok = "stmt" /\ last_stmt.s = AssignStmt("a", Var("arg"))
  /\ get_var(pOn, "a") = get_var(pOn, "arg")
  /\ Count(pOn.graph[SCOPE_NID + 1].inputs, get_var(pOn, "arg")) = 2


(***************************************************************************)
(* Properties of the peephole pass.                                        *)
(***************************************************************************)
\* C22: when peephole is handed a node that is not a Constant and whose
\* refined type is constant, it answers with a Constant node created in that
\* call and carrying that type; the assertion that the replaced node has no
\* outputs never aborts either parser; and once the statement is parsed no
\* live node of the optimizing parser other than a Constant has a constant
\* type, so the replaced node is gone under its unique id.
C22_ConstantMaterialization ==
  /\ [](/\ pOn.panic_at # "peephole" /\ pOff.panic_at # "peephole"
        /\ (pOn.phase \in {"parsing", "done"} /\ pOn.err = "") =>
             \A n \in 0..(Len(pOn.graph) - 1) :
               (node_exists(pOn.graph, n) /\ is_constant(pOn.graph[n + 1].typ))
                  => pOn.graph[n + 1].kind = "Constant")
  /\ [][(/\ last_stmt'.tok = "stmt" /\ pOn.phase = "parsing"
         /\ last_stmt'.s.t \in {"decl", "assign"}
         /\ last_stmt'.s.e.op \notin {"num", "var"}
         /\ pOn'.err = "" /\ EvalExpr(pOn, last_stmt'.s.e).ok)
        => /\ pOn'.graph[pOn'.ret + 1].kind = "Constant"
           /\ pOn'.graph[pOn'.ret + 1].typ = IntC(EvalExpr(pOn, last_stmt'.s.e).v)
           /\ pOn'.graph[pOn'.ret + 1].uid >= pOn.counter]_vars

\* "int a = 1 + 1;" has been parsed: a is bound to the Constant created last,
\* and the Add it replaces, created just before it, is no longer live
C22_Witness ==
  /\ pOn.phase = "parsing" /\ pOn.err = "" /\ last_stmt.tok = "stmt"
  /\ last_stmt.s = DeclStmt("a", Bin("Add", Num(1), Num(1)))
  /\ get_var(pOn, "a") = pOn.ret
  /\ pOn.graph[pOn.ret + 1].kind = "Constant"
  /\ pOn.graph[pOn.ret + 1].typ = IntC(2)
  /\ pOn.graph[pOn.ret + 1].uid = pOn.counter - 1
  /\ \A n \in 0..(Len(pOn.graph) - 1) :
        node_exists(pOn.graph, n) => pOn.graph[n + 1].uid # pOn.counter - 2


C24_PeepholeIdempotent ==
  (/\ pOn.phase = "parsing" /\ pOn.err = "" /\ last_stmt.tok = "stmt"
   /\ last_stmt.s.t \in {"decl", "assign"})
    => LET q == peephole(pOn, pOn.ret)
       IN /\ q.err = "" /\ q.ret = pOn.ret
          /\ q.graph = pOn.graph /\ q.counter = pOn.counter

\* "int a = arg * 0;" with an unknown arg has been parsed and has left a Mul
C24_Witness ==
  /\ pOn.phase = "parsing" /\ pOn.err = "" /\ last_stmt.tok = "stmt"
  /\ last_stmt.s = DeclStmt("a", Bin("Mul", Var("arg"), Num(0)))
  /\ pOn.graph[pOn.ret + 1].kind = "Mul"
  /\ pOn.graph[pOn.ret + 1].inputs[1] = get_var(pOn, "arg")
  /\ peephole(pOn, pOn.ret).ret = get_var(pOn, "a")

\* C25: after a successful parse() with the optimizer on, no live Add has an
\* Add as its second input, and every live Add whose two inputs are both
\* not Adds has a first input whose unique id is at most the second's.
C25_AddChainsCanonical ==
  (pOn.phase = "done" /\ pOn.err = "") =>
    \A n \in 0..(Len(pOn.graph) - 1) :
      (node_exists(pOn.graph, n) /\ pOn.graph[n + 1].kind = "Add") =>
        LET l == pOn.graph[pOn.graph[n + 1].inputs[1] + 1]
            r == pOn.graph[pOn.graph[n + 1].inputs[2] + 1]
        IN /\ r.kind # "Add"
           /\ (l.kind # "Add" /\ r.kind # "Add") => l.uid <= r.uid

\* "return 1 + arg;" with an unknown arg has been parsed: the Add returned has
\* arg, the older node, first and the Constant 1 second
C25_Witness ==
  /\ ReturnsOk(pOn) /\ last_stmt.s = ReturnStmt(Bin("Add", Num(1), Var("arg")))
  /\ LET v == pOn.graph[ValueInput(pOn.graph, pOn.result) + 1]
     IN /\ v.kind = "Add"
        /\ pOn.graph[v.inputs[1] + 1].kind = "Proj"
        /\ pOn.graph[v.inputs[2] + 1].typ = IntC(1)
        /\ pOn.graph[v.inputs[1] + 1].uid < pOn.graph[v.inputs[2] + 1].uid

\* C26: after a successful parse() with the optimizer on, in which every
\* slot id add_node was handed still held the node it was obtained for, no
\* live Add or Mul has a first input of constant type together with a
\* second input whose type is not constant.
C26_ConstantsOnTheRight ==
  (pOn.phase = "done" /\ pOn.err = "" /\ ~pOn.stale) =>
    \A n \in 0..(Len(pOn.graph) - 1) :
      (node_exists(pOn.graph, n) /\ pOn.graph[n + 1].kind \in {"Add", "Mul"}) =>
        ~(/\ is_constant(pOn.graph[pOn.graph[n + 1].inputs[1] + 1].typ)
          /\ ~is_constant(pOn.graph[pOn.graph[n + 1].inputs[2] + 1].typ))


(***************************************************************************)
(* Properties of the arena's edge lists and unique ids.                    *)
(***************************************************************************)
\* C27: remove_dependency_br(user, def) on two live nodes deletes the last
\* entry equal to def from user's inputs and the last entry equal to user
\* from def's outputs, each only if there is one, keeps the order of the
\* entries that remain, and changes nothing else in the arena; when one of
\* the two is not live it fails and changes nothing.
C27_RemoveDependencyFrame ==
  [][arena_op'.name = "remove_dependency" =>
       LET user == call'.a.c
           def == call'.b.c
           Occurs(s, x) == \E k \in 1..Len(s) : s[k] = x
           LastAt(s, x) == CHOOSE k \in 1..Len(s) :
                             s[k] = x /\ \A j \in (k + 1)..Len(s) : s[j] # x
           Without(s, k) == [i \in 1..(Len(s) - 1) |->
                               IF i < k THEN s[i] ELSE s[i + 1]]
           g1 == IF Occurs(arena.graph[user + 1].inputs, def)
                 THEN [arena.graph EXCEPT ![user + 1].inputs =
                                             Without(@, LastAt(@, def))]
                 ELSE arena.graph
           g2 == IF Occurs(g1[def + 1].outputs, user)
                 THEN [g1 EXCEPT ![def + 1].outputs =
                                    Without(@, LastAt(@, user))]
                 ELSE g1
       IN IF node_exists(arena.graph, user) /\ node_exists(arena.graph, def)
          THEN /\ arena'.err = "" /\ arena'.graph = g2
               /\ arena'.counter = arena.counter
          ELSE /\ arena'.err = "NodeIdNotExisting"
               /\ arena'.graph = arena.graph
               /\ arena'.counter = arena.counter]_vars

\* a call has removed one of two edges user -> def: user still has def as
\* its only input, and def's outputs hold user and then another node
C27_Witness ==
  /\ arena_op.name = "remove_dependency" /\ arena.err = ""
  /\ arena.graph[call.a.c + 1].inputs = <<call.b.c>>
  /\ \E o \in ArenaSlots :
       /\ o # call.a.c
       /\ arena.graph[call.b.c + 1].outputs = <<call.a.c, o>>


\* C28: unique ids are handed out in increasing order and never again: in
\* both parsers no two live nodes share a unique id and every one is below
\* the counter; the counter never goes down; a node that is live after a
\* step and carries an id handed out before the step is the node that held
\* that slot before the step, so every node created by the step has an id
\* above all earlier ones, whatever was deleted and whichever slot it
\* landed in; and node_exists_unique(slot, uid) holds exactly of the live
\* node in that slot and its own id.
C28_UniqueIdsFresh ==
  /\ [](LET Live(g) == {n \in 0..(Len(g) - 1) : node_exists(g, n)}
            Distinct(p) ==
              /\ \A n \in Live(p.graph) : p.graph[n + 1].uid < p.counter
              /\ \A m, n \in Live(p.graph) :
                   p.graph[m + 1].uid = p.graph[n + 1].uid => m = n
              /\ \A n \in 0..Len(p.graph), u \in 0..p.counter :
                   node_exists_unique(p.graph, n, u)
                     <=> (n \in Live(p.graph) /\ p.graph[n + 1].uid = u)
        IN Distinct(pOn) /\ Distinct(pOff))
  /\ [][LET Live(g) == {n \in 0..(Len(g) - 1) : node_exists(g, n)}
            Fresh(p, q) ==
              /\ q.counter >= p.counter
              /\ \A n \in Live(q.graph) :
                   q.graph[n + 1].uid < p.counter =>
                     /\ n \in Live(p.graph)
                     /\ p.graph[n + 1].uid = q.graph[n + 1].uid
        IN Fresh(pOn, pOn') /\ Fresh(pOff, pOff')]_vars

\* a slot has been reused: the optimizing parser holds a live node in a
\* lower slot than another live node that was created before it
C28_Witness ==
  /\ pOn.phase = "parsing" /\ pOn.err = ""
  /\ \E m, n \in 0..(Len(pOn.graph) - 1) :
       /\ m < n /\ node_exists(pOn.graph, m) /\ node_exists(pOn.graph, n)
       /\ pOn.graph[m + 1].uid > pOn.graph[n + 1].uid


(***************************************************************************)
(* Properties of the parser's bracketing of pins and scopes.               *)
(***************************************************************************)
\* C29: with_kept_node(n, f) releases its pin on every exit of f that is
\* not a panic.  Between two statements, for every left operand n the
\* parser can produce next and every right operand within the size left,
\* with f the parse of the right operand, alone or followed by the
\* add_node of the operator: when f ends n is still the live node it was
\* and is still pinned; the exit takes exactly one pin off n and none off
\* any other node, so that n carries as many pins as before the call
\* whenever f has left n's pins as it found them; and the error or node f
\* ended with is what with_kept_node returns.
C29_WithKeptNodeReleases ==
  LET Pins(p, n) == Count(p.graph[KEEP_ALIVE_NID + 1].inputs, n)
      Released(p1, n, uid, rs) ==
        \A r \in rs : \A joined \in BOOLEAN :
          LET pf == IF joined
                    THEN Try(parse_expression(keep_node(p1, n), r), LAMBDA p3 :
                             add_node_unrefined(p3, <<n, p3.ret>>,
                                                <<uid, p3.retuid>>, "Add", 0))
                    ELSE parse_expression(keep_node(p1, n), r)
              px == with_kept_node_exit(pf, n)
          IN pf.err # "panic" =>
               /\ node_exists_unique(pf.graph, n, uid)
               /\ Pins(pf, n) >= 1
               /\ px.err = pf.err /\ px.ret = pf.ret
               /\ Pins(px, n) = Pins(pf, n) - 1
               /\ \A m \in 0..(Len(pf.graph) - 1) :
                    m # n => Pins(px, m) = Pins(pf, m)
               /\ Pins(pf, n) = Pins(p1, n) + 1 => Pins(px, n) = Pins(p1, n)
      Holds(p) ==
        (p.phase = "parsing" /\ p.err = "" /\ last_stmt.n + 2 <= MaxSize) =>
          \A l \in ExprsUpTo(MaxSize - 2 - last_stmt.n) :
            LET p1 == parse_expression(p, l)
            IN p1.err = "" =>
                 Released(p1, p1.ret, p1.retuid,
                          ExprsUpTo(MaxSize - 2 - last_stmt.n - OpsOf(l)))
  IN Holds(pOn) /\ Holds(pOff)

\* "int a = arg + a;" has been refused: the right operand is not defined,
\* so f ended with VariableUndefined while arg was pinned; that error is the
\* statement's and KeepAlive is back to its two permanent inputs
C29_Witness ==
  /\ last_stmt.tok = "stmt"
  /\ last_stmt.s = DeclStmt("a", Bin("Add", Var("arg"), Var("a")))
  /\ pOn.err = "VariableUndefined" /\ pOff.err = "VariableUndefined"
  /\ pOn.graph[KEEP_ALIVE_NID + 1].inputs = <<SCOPE_NID, START_NID>>
  /\ pOff.graph[KEEP_ALIVE_NID + 1].inputs = <<SCOPE_NID, START_NID>>


====
